---- MODULE Spec2Model ----
(***************************************************************************)
(* Rate limiter and request pipeline of the AcidTech Flask API.            *)
(*                                                                         *)
(* app/middleware/rate_limiting.py : SimpleRateLimiter, check_rate_limit,  *)
(*   add_rate_limit_headers, should_skip_rate_limiting,                    *)
(*   get_rate_limit_config, generate_rate_limit_key, rate_limit            *)
(* app/middleware/logging_middleware.py : before_request / after_request   *)
(*                                                                         *)
(* Time is time.time() read in whole seconds.  A request history is a      *)
(* Python list object: the limiter map binds a key to a list, and a        *)
(* running check holds a reference to the list it fetched, so the model    *)
(* keeps the lists in a small heap (lists[key][slot]) and the map as       *)
(* key -> slot.                                                            *)
(***************************************************************************)
EXTENDS Integers, Sequences, FiniteSets, TLC

(***************************************************************************)
(* Bounds and input sets                                                   *)
(***************************************************************************)
\* client keys handed to is_allowed
Keys == {"ip:1.2.3.4", "ip:5.6.7.8"}
\* keys derived from the principals of the request model
UserKeys == {"user:mock-user-123", "user:admin-1"}
\* every key the map may hold
AllKeys == Keys \cup UserKeys
\* limits and windows passed by the callers
Limits == {1, 3}
Windows == {1, 60}
\* instants at which time.time() is sampled
Instants == {0, 1, 2, 5, 61, 300, 301}
\* number of is_allowed calls explored in the serial model
MaxCalls == 4
\* number of is_allowed calls explored in the model of the example scenario
MaxExampleCalls == 5
\* worker threads of the concurrent model
Threads == {"t1", "t2"}
\* the workers serving requests at the same time
Workers == {"w1", "w2"}
\* track_* calls made by one request
MaxTracks == 2
\* the durations passed to track_db_query and track_api_call
QueryTimes == {2}
\* number of is_allowed calls made in the concurrent model
MaxConcCalls == 3
\* inputs of the concurrent model
ConcLimits == {1}
ConcWindows == {1, 60}
ConcInstants == {0, 300, 301}
\* number of requests served in the request model, and its inputs
MaxRequests == 2
HttpInstants == {0, 1, 61}
MaxOrderCalls == 5
OrderInstants == {0, 1, 86400}

(***************************************************************************)
(* Program constants                                                       *)
(***************************************************************************)
cleanup_interval == 300
\* time.time() when the module-level rate_limiter is constructed
StartTime == 0

Absent == -1
Slots == 0..Cardinality(Threads)
NoRefs == {}

VARIABLES
    now,          \* the clock, time.time()
    requests,     \* SimpleRateLimiter.requests : key -> slot of its list, or Absent
    lists,        \* the list objects: lists[key][slot] is a sequence of <<timestamp, count>>
    last_cleanup, \* SimpleRateLimiter.last_cleanup
    last,         \* the last is_allowed call, what its pruning step left and what it returned
    ncalls,       \* number of is_allowed calls made
    arrived,      \* history: per key, the time of its latest recorded arrival (-1: none)
    run,          \* history: per key, the allowed checks counted since the key was fresh
    scen,         \* history: how many steps of the example scenario the calls so far match
    th,           \* concurrent model: per thread, its position in is_allowed and its locals
    results,      \* concurrent model: per thread, what its finished calls returned
    app_limits,   \* request model: current_app.config['RATE_LIMITS']
    app_config,   \* request model: the other settings of current_app.config
    req,          \* request model: the request being served (flask.request)
    g,            \* request model: its context (flask.g), attribute name -> value
    resp,         \* request model: the response so far (status 0: none yet)
    hpc,          \* request model: the hook or view about to run
    nreq,         \* request model: requests received
    note,         \* history: what happened to the request being served
    resolved,     \* configuration model: the last get_rate_limit_config() call and its result
    sweeps,       \* history: the clock at the start of each _cleanup_old_entries() execution
    gs,           \* context model: flask.g of each request context, attribute name -> value
    wk,           \* context model: per worker, its position and what its request did and read
    retired,      \* eviction model: the keys that receive no more checks
    swept,        \* eviction model: the map as the last sweep left it
    po,           \* order model: the fields of a PurchaseOrder the workflow methods write
    trail         \* history: the workflow calls made on the order and the status each left

limiterVars == <<requests, lists, last_cleanup>>
historyVars == <<arrived, run, scen>>
threadVars == <<th, results>>
httpVars == <<app_limits, app_config, req, g, resp, hpc, nreq, note>>
ctxVars == <<gs, wk>>
evictVars == <<retired, swept>>
orderVars == <<po, trail>>
auxVars == <<resolved, sweeps, ctxVars, evictVars, orderVars>>
vars == <<now, requests, lists, last_cleanup, last, ncalls, arrived, run, scen, th, results,
          app_limits, app_config, req, g, resp, hpc, nreq, note, resolved, sweeps,
          gs, wk, retired, swept, po, trail>>

(***************************************************************************)
(* Helpers on histories                                                    *)
(***************************************************************************)
RECURSIVE SumCounts(_)
\* sum(count for _, count in request_history)
SumCounts(h) == IF h = <<>> THEN 0 ELSE h[1][2] + SumCounts(Tail(h))

\* mutant: the latest surviving record instead of the earliest
MaxReset(h, window) ==
    CHOOSE m \in {h[i][1] + window : i \in 1..Len(h)} :
        \A j \in 1..Len(h) : m >= h[j][1] + window

\* min(timestamp + window for timestamp, _ in request_history)
MinReset(h, window) ==
    CHOOSE m \in {h[i][1] + window : i \in 1..Len(h)} :
        \A j \in 1..Len(h) : m <= h[j][1] + window

\* mutant: a record exactly `window` seconds old is kept
PruneInclusive(h, current_time, window) ==
    SelectSeq(h, LAMBDA r : current_time - r[1] <= window)

\* [(timestamp, count) for ... if current_time - timestamp < window]
Prune(h, current_time, window) ==
    SelectSeq(h, LAMBDA r : current_time - r[1] < window)

\* [(timestamp, count) for ... if timestamp > cutoff_time]
SweepFilter(h, cutoff_time) ==
    SelectSeq(h, LAMBDA r : r[1] > cutoff_time)

(***************************************************************************)
(* The limiter store: [requests, lists, last_cleanup]                      *)
(***************************************************************************)
EmptyLists == [k \in AllKeys |-> [n \in Slots |-> <<>>]]

\* the list bound to key, <<>> when the key is not in the map
HistOf(st, key) ==
    IF st.requests[key] = Absent THEN <<>> ELSE st.lists[key][st.requests[key]]

\* a list object no running check refers to
FreshSlot(key, refs) ==
    CHOOSE n \in Slots :
        /\ <<key, n>> \notin refs
        /\ \A m \in Slots : <<key, m>> \notin refs => n <= m

\* self.requests[key] = <a new list holding items>
BindNew(st, key, items, refs) ==
    LET n == FreshSlot(key, refs)
    IN  [st EXCEPT !.requests[key] = n, !.lists[key][n] = items]

\* list objects that nothing refers to any more are dropped
Collect(st, refs) ==
    [st EXCEPT !.lists =
        [k \in AllKeys |-> [n \in Slots |->
            IF st.requests[k] = n \/ <<k, n>> \in refs
            THEN st.lists[k][n] ELSE <<>>]]]

\* one iteration of the loop without lines 94-95
CleanupKeyKeepsEmpty(st, key, cutoff_time, refs) ==
    BindNew(st, key, SweepFilter(HistOf(st, key), cutoff_time), refs)

\* one iteration of the loop of _cleanup_old_entries
CleanupKey(st, key, cutoff_time, refs) ==
    LET kept == SweepFilter(HistOf(st, key), cutoff_time)
        s1   == BindNew(st, key, kept, refs)
    IN  IF kept = <<>> THEN [s1 EXCEPT !.requests[key] = Absent] ELSE s1

RECURSIVE CleanupKeys(_, _, _, _)
CleanupKeys(st, ks, cutoff_time, refs) ==
    IF ks = {} THEN st
    ELSE LET k == CHOOSE x \in ks : TRUE
         IN  CleanupKeys(CleanupKey(st, k, cutoff_time, refs), ks \ {k}, cutoff_time, refs)

\* _cleanup_old_entries(cutoff_time): every key of the map
CleanupOldEntries(st, cutoff_time, refs) ==
    CleanupKeys(st, {k \in AllKeys : st.requests[k] # Absent}, cutoff_time, refs)

\* if current_time - self.last_cleanup > self.cleanup_interval: sweep, stamp
MaybeCleanup(st, current_time, window, refs) ==
    IF current_time - st.last_cleanup > cleanup_interval
    THEN [CleanupOldEntries(st, current_time - window, refs)
            EXCEPT !.last_cleanup = current_time]
    ELSE st

\* if key not in self.requests: self.requests[key] = []
GetOrCreate(st, key, refs) ==
    IF st.requests[key] = Absent THEN BindNew(st, key, <<>>, refs) ELSE st

\* mutant: the list comprehension at line 51 keeps everything
PruneInPlaceSkips(st, key, slot, current_time, window) == st

\* request_history[:] = [...]   (in place, on the list object itself)
PruneInPlace(st, key, slot, current_time, window) ==
    [st EXCEPT !.lists[key][slot] = Prune(st.lists[key][slot], current_time, window)]

\* mutant: the comparison is strict
LimitExceededStrict(current_requests, limit) == current_requests > limit

\* if current_requests >= limit
LimitExceeded(current_requests, limit) == current_requests >= limit

\* the info dict of a denial
DeniedInfo(h, limit, window, current_requests, current_time) ==
    [allowed     |-> FALSE,
     limit       |-> limit,
     current     |-> current_requests,
     window      |-> window,
     reset_time  |-> IF h # <<>> THEN MinReset(h, window) ELSE current_time,
     retry_after |-> IF h # <<>> THEN MinReset(h, window) - current_time ELSE 0]

\* mutant: remaining does not count the request being recorded
AllowedInfoStale(limit, window, current_requests, current_time) ==
    [allowed    |-> TRUE,
     limit      |-> limit,
     current    |-> current_requests + 1,
     window     |-> window,
     remaining  |-> limit - current_requests,
     reset_time |-> current_time + window]

\* the info dict of an allowed check
AllowedInfo(limit, window, current_requests, current_time) ==
    [allowed    |-> TRUE,
     limit      |-> limit,
     current    |-> current_requests + 1,
     window     |-> window,
     remaining  |-> limit - current_requests - 1,
     reset_time |-> current_time + window]

\* mutant: a denied check appends its arrival too
IsAllowedFromRecordsDenied(s3, key, limit, window, current_time) ==
    LET slot == s3.requests[key]
        h    == s3.lists[key][slot]
        current_requests == SumCounts(h)
    IN  [st   |-> Collect([s3 EXCEPT !.lists[key][slot] = Append(h, <<current_time, 1>>)], NoRefs),
         info |-> IF LimitExceeded(current_requests, limit)
                  THEN DeniedInfo(h, limit, window, current_requests, current_time)
                  ELSE AllowedInfo(limit, window, current_requests, current_time),
         pruned |-> h, counted |-> current_requests]

\* lines 57-83 on the store s3 that lines 40-54 left: count, decide, append
IsAllowedFrom(s3, key, limit, window, current_time) ==
    LET slot == s3.requests[key]
        h    == s3.lists[key][slot]
        current_requests == SumCounts(h)
    IN  IF LimitExceeded(current_requests, limit)
        THEN [st   |-> Collect(s3, NoRefs),
              info |-> DeniedInfo(h, limit, window, current_requests, current_time),
              pruned |-> h, counted |-> current_requests]
        ELSE [st   |-> Collect([s3 EXCEPT !.lists[key][slot] = Append(h, <<current_time, 1>>)], NoRefs),
              info |-> AllowedInfo(limit, window, current_requests, current_time),
              pruned |-> h, counted |-> current_requests]

\* is_allowed(key, limit, window) run without interruption at current_time:
\* the store it leaves and the info it returns
IsAllowed(st, key, limit, window, current_time) ==
    CHOOSE r \in {IsAllowedFrom(p.s3, key, limit, window, current_time)
                       @@ [unpruned |-> p.unpruned] :
                    p \in {[s3 |-> PruneInPlace(s2, key, s2.requests[key], current_time, window),
                            unpruned |-> HistOf(s2, key)] :
                    s2 \in {GetOrCreate(s1, key, NoRefs) :
                    s1 \in {MaybeCleanup(st, current_time, window, NoRefs)}}}} : TRUE

Store == [requests |-> requests, lists |-> lists, last_cleanup |-> last_cleanup]

NoCall == [key |-> "none"]
\* the call before was not a denial of the same check
NoDenial == [reset_time |-> -1, current |-> 0]

(***************************************************************************)
(* History variables of the serial model                                   *)
(***************************************************************************)
NoRun == [limit |-> 0]

\* the checks (key, limit, window) the run of key is counting, still inside the window
RunActive(r, limit, window, t) ==
    /\ r # NoRun
    /\ r.limit = limit
    /\ r.window = window
    /\ t - r.first < window

\* limit checks of the run were allowed and all of them are still inside the window
RunFull(r, limit, window, t) == RunActive(r, limit, window, t) /\ r.n >= limit

RunNext(r, fresh, limit, window, t, allowed) ==
    IF RunActive(r, limit, window, t)
    THEN IF allowed /\ r.n < limit THEN [r EXCEPT !.n = r.n + 1] ELSE r
    ELSE IF fresh
         THEN [limit |-> limit, window |-> window, first |-> t, n |-> IF allowed THEN 1 ELSE 0]
         ELSE IF r # NoRun /\ t - r.first < r.window THEN r ELSE NoRun

\* the example scenario: limit 3, window 60, one key, checks at t = 0, 1, 2, 5, 61
ScenarioKey == "ip:1.2.3.4"
ScenarioConfig == [limit |-> 3, window |-> 60]
ScenarioTimes == <<0, 1, 2, 5, 61>>

ScenNext(key, limit, window, t) ==
    IF /\ scen # -1
       /\ scen < Len(ScenarioTimes)
       /\ key = ScenarioKey /\ limit = ScenarioConfig.limit /\ window = ScenarioConfig.window
       /\ t = ScenarioTimes[scen + 1]
    THEN scen + 1
    ELSE -1

\* values of the request model before any request
NotConfigured == <<>>
NoAttrs == <<>>
NoRequest == [endpoint |-> "", method |-> "", user_agent |-> "", remote_addr |-> "",
              forwarded_for |-> "", wrap |-> [on |-> FALSE, limit |-> 0, window |-> 0],
              authorization |-> "", auth |-> "none"]
NoResponse == [status |-> 0, body |-> <<>>, headers |-> <<>>]
NoNote == [raised_in_check |-> FALSE, raised_in_decorator |-> FALSE, denied_by |-> "none",
           deny_limit |-> 0, key_derived |-> FALSE, handler_runs |-> 0,
           handler_raised |-> FALSE, check_key |-> "", request_id |-> "",
           log |-> <<>>, logged_before_response |-> 0,
           arrival |-> [requests |-> [k \in AllKeys |-> Absent], lists |-> EmptyLists,
                        last_cleanup |-> StartTime]]

\* no get_rate_limit_config() call yet
NotResolved == [limits |-> <<>>, endpoint |-> "", method |-> "", ctx |-> <<>>,
                limit_config |-> <<>>]

\* a thread that is not inside is_allowed
\* the counters of setup_performance_tracking
TrackKinds == {"db_queries", "api_calls", "cache_hits", "cache_misses"}
ZeroCounters == [k \in TrackKinds |-> 0]
\* a worker between two requests
IdleWorker == [pc |-> "idle", request_id |-> "", start_time |-> -1, calls |-> ZeroCounters,
               seen |-> <<>>]
\* no sweep has run yet
NoSweep == [ran |-> FALSE, keys |-> {}, empty |-> {}, evicted |-> {}]

IdleThread ==
    [pc |-> "idle", key |-> "", limit |-> 0, window |-> 0, current_time |-> 0,
     ref |-> Absent, kept |-> <<>>, current_requests |-> 0,
     keys |-> {}, sweep_key |-> "", reset_time |-> 0]

(***************************************************************************)
(* Serial model: one check at a time                                       *)
(***************************************************************************)
\* PurchaseOrder statuses
DRAFT == "draft"
PENDING == "pending"
APPROVED == "approved"
ORDERED == "ordered"
RECEIVED == "received"
CANCELLED == "cancelled"

\* None, for a text field and for a date field
NoText == "<None>"
NoDate == -1

\* PurchaseOrder(): the fields the workflow methods write, as __init__ and
\* BaseModel.__init__ leave them
NewOrder ==
    [status |-> DRAFT, approved_by |-> NoText, approval_date |-> NoDate,
     approval_notes |-> NoText, tracking_number |-> NoText, delivery_notes |-> NoText,
     actual_delivery_date |-> NoDate, updated_at |-> StartTime]

Init ==
    /\ now = StartTime
    /\ requests = [k \in AllKeys |-> Absent]
    /\ lists = EmptyLists
    /\ last_cleanup = StartTime
    /\ last = NoCall
    /\ ncalls = 0
    /\ arrived = [k \in Keys |-> -1]
    /\ run = [k \in Keys |-> NoRun]
    /\ scen = 0
    /\ th = [t \in Threads |-> IdleThread]
    /\ results = [t \in Threads |-> <<>>]
    /\ app_limits = NotConfigured
    /\ app_config = NotConfigured
    /\ req = NoRequest
    /\ g = NoAttrs
    /\ resp = NoResponse
    /\ hpc = "boot"
    /\ nreq = 0
    /\ note = NoNote
    /\ resolved = NotResolved
    /\ sweeps = <<>>
    /\ gs = [w \in Workers |-> NoAttrs]
    /\ wk = [w \in Workers |-> IdleWorker]
    /\ retired = {}
    /\ swept = NoSweep
    /\ po = NewOrder
    /\ trail = <<>>

\* the clock moves on
Tick ==
    /\ \E t \in Instants : t > now /\ now' = t
    /\ UNCHANGED <<limiterVars, last, ncalls, historyVars, threadVars, httpVars, auxVars>>

\* rate_limiter.is_allowed(key, limit, window), run to its return
Call(key, limit, window) ==
    /\ LET r     == IsAllowed(Store, key, limit, window, now)
           fresh == HistOf(Store, key) = <<>>
       IN  /\ requests' = r.st.requests
           /\ lists' = r.st.lists
           /\ last_cleanup' = r.st.last_cleanup
           /\ last' = [key |-> key, limit |-> limit, window |-> window,
                       time |-> now, info |-> r.info,
                       prev_arrival |-> arrived[key],
                       pruned |-> r.pruned, counted |-> r.counted,
                       dropped |-> Len(r.unpruned) - Len(r.pruned),
                       prev_denial |-> IF /\ last # NoCall
                                          /\ last.key = key /\ last.limit = limit
                                          /\ last.window = window /\ ~last.info.allowed
                                       THEN [reset_time |-> last.info.reset_time,
                                             current |-> last.info.current]
                                       ELSE NoDenial,
                       owed_denial |-> RunFull(run[key], limit, window, now)]
           /\ arrived' = IF r.info.allowed THEN [arrived EXCEPT ![key] = now] ELSE arrived
           /\ run' = [run EXCEPT ![key] = RunNext(run[key], fresh, limit, window, now, r.info.allowed)]
           /\ scen' = ScenNext(key, limit, window, now)
    /\ ncalls' = ncalls + 1
    /\ UNCHANGED <<now, threadVars, httpVars, auxVars>>

\* a caller checks a key under some limit and window
Check(key, limit, window) ==
    /\ ncalls < MaxCalls
    /\ Call(key, limit, window)

Next ==
    \/ Tick
    \/ \E key \in Keys, limit \in Limits, window \in Windows : Check(key, limit, window)

Spec == Init /\ [][Next]_vars

\* the serial model with every check made under the limit and window of the
\* example scenario
ExampleCheck(key) ==
    /\ ncalls < MaxExampleCalls
    /\ Call(key, ScenarioConfig.limit, ScenarioConfig.window)

NextExample ==
    \/ Tick
    \/ \E key \in Keys : ExampleCheck(key)

SpecExample == Init /\ [][NextExample]_vars

(***************************************************************************)
(* Concurrent model: worker threads inside is_allowed at the same time.    *)
(* The limiter takes no lock, so a thread may be preempted between any two *)
(* of its statements; each action below is one statement (or one read and  *)
(* one write) of is_allowed or _cleanup_old_entries.                       *)
(***************************************************************************)
\* the list objects the running checks hold in request_history
Refs(thr) == {<<thr[t].key, thr[t].ref>> : t \in {u \in Threads : thr[u].ref # Absent}}

\* the limiter after a statement of a thread
SetStore(st, thr) ==
    LET c == Collect(st, Refs(thr))
    IN  /\ requests' = c.requests
        /\ lists' = c.lists
        /\ last_cleanup' = c.last_cleanup

\* the thread leaves is_allowed with outcome (an info dict, or the exception raised)
Return(t, outcome) ==
    /\ th' = [th EXCEPT ![t] = IdleThread]
    /\ results' = [results EXCEPT ![t] = Append(@,
            [key |-> th[t].key, limit |-> th[t].limit, window |-> th[t].window,
             time |-> th[t].current_time, info |-> outcome])]

KeyError == [allowed |-> FALSE, raised |-> "KeyError"]
Raised(info) == "raised" \in DOMAIN info

\* calls entered so far
ConcCalls ==
    Len(results["t1"]) + Len(results["t2"]) + Cardinality({t \in Threads : th[t].pc # "idle"})

ConcFrame == UNCHANGED <<now, last, ncalls, historyVars, httpVars, auxVars>>

\* line 37: current_time = time.time()
TEnter(t, key, limit, window) ==
    /\ th[t].pc = "idle"
    /\ ConcCalls < MaxConcCalls
    /\ th' = [th EXCEPT ![t] = [IdleThread EXCEPT !.pc = "L40", !.key = key, !.limit = limit,
                                                  !.window = window, !.current_time = now]]
    /\ UNCHANGED <<limiterVars, results>>
    /\ ConcFrame

\* line 40, and line 87 list(self.requests.keys()) when the sweep is due
TL40(t) ==
    /\ th[t].pc = "L40"
    /\ IF th[t].current_time - last_cleanup > cleanup_interval
       THEN /\ th' = [th EXCEPT ![t].pc = "L87",
                                ![t].keys = {k \in AllKeys : requests[k] # Absent}]
            /\ sweeps' = Append(sweeps, now)
       ELSE /\ th' = [th EXCEPT ![t].pc = "L45"]
            /\ UNCHANGED sweeps
    /\ UNCHANGED <<limiterVars, results>>
    /\ UNCHANGED <<now, last, ncalls, historyVars, httpVars, resolved, ctxVars, evictVars, orderVars>>

\* line 87, the loop is over; line 42: self.last_cleanup = current_time
TL42(t) ==
    /\ th[t].pc = "L87"
    /\ th[t].keys = {}
    /\ th' = [th EXCEPT ![t].pc = "L45"]
    /\ last_cleanup' = th[t].current_time
    /\ UNCHANGED <<requests, lists, results>>
    /\ ConcFrame

\* lines 87-91: the next key; self.requests[key] = [...]
TL88(t, k) ==
    /\ th[t].pc = "L87"
    /\ k \in th[t].keys
    /\ IF requests[k] = Absent
       THEN /\ Return(t, KeyError)
            /\ UNCHANGED limiterVars
       ELSE /\ th' = [th EXCEPT ![t].pc = "L94", ![t].sweep_key = k, ![t].keys = @ \ {k}]
            /\ SetStore(BindNew(Store, k,
                                SweepFilter(HistOf(Store, k), th[t].current_time - th[t].window),
                                Refs(th)), th')
            /\ UNCHANGED results
    /\ ConcFrame

\* line 94: if not self.requests[key]
TL94(t) ==
    /\ th[t].pc = "L94"
    /\ IF requests[th[t].sweep_key] = Absent
       THEN Return(t, KeyError)
       ELSE /\ th' = [th EXCEPT ![t].pc = IF HistOf(Store, th[t].sweep_key) = <<>>
                                          THEN "L95" ELSE "L87"]
            /\ UNCHANGED results
    /\ UNCHANGED limiterVars
    /\ ConcFrame

\* line 95: del self.requests[key]
TL95(t) ==
    /\ th[t].pc = "L95"
    /\ IF requests[th[t].sweep_key] = Absent
       THEN /\ Return(t, KeyError)
            /\ UNCHANGED limiterVars
       ELSE /\ th' = [th EXCEPT ![t].pc = "L87"]
            /\ SetStore([Store EXCEPT !.requests[th[t].sweep_key] = Absent], th')
            /\ UNCHANGED results
    /\ ConcFrame

\* line 45: if key not in self.requests
TL45(t) ==
    /\ th[t].pc = "L45"
    /\ th' = [th EXCEPT ![t].pc = IF requests[th[t].key] = Absent THEN "L46" ELSE "L48"]
    /\ UNCHANGED <<limiterVars, results>>
    /\ ConcFrame

\* line 46: self.requests[key] = []
TL46(t) ==
    /\ th[t].pc = "L46"
    /\ th' = [th EXCEPT ![t].pc = "L48"]
    /\ SetStore(BindNew(Store, th[t].key, <<>>, Refs(th)), th')
    /\ UNCHANGED results
    /\ ConcFrame

\* line 48: request_history = self.requests[key]
TL48(t) ==
    /\ th[t].pc = "L48"
    /\ IF requests[th[t].key] = Absent
       THEN Return(t, KeyError)
       ELSE /\ th' = [th EXCEPT ![t].pc = "L51", ![t].ref = requests[th[t].key]]
            /\ UNCHANGED results
    /\ UNCHANGED limiterVars
    /\ ConcFrame

\* lines 51-54, the right-hand side: the list comprehension over request_history
TL51(t) ==
    /\ th[t].pc = "L51"
    /\ th' = [th EXCEPT ![t].pc = "L51w",
                        ![t].kept = Prune(lists[th[t].key][th[t].ref],
                                          th[t].current_time, th[t].window)]
    /\ UNCHANGED <<limiterVars, results>>
    /\ ConcFrame

\* line 51, the slice assignment: request_history[:] = <the comprehension>
TL51w(t) ==
    /\ th[t].pc = "L51w"
    /\ th' = [th EXCEPT ![t].pc = "L57", ![t].kept = <<>>]
    /\ SetStore([Store EXCEPT !.lists[th[t].key][th[t].ref] = th[t].kept], th')
    /\ UNCHANGED results
    /\ ConcFrame

\* line 57: current_requests = sum(...); line 60: if current_requests >= limit
TL57(t) ==
    /\ th[t].pc = "L57"
    /\ LET current_requests == SumCounts(lists[th[t].key][th[t].ref])
       IN  th' = [th EXCEPT ![t].pc = IF LimitExceeded(current_requests, th[t].limit)
                                      THEN "L66" ELSE "L72",
                            ![t].current_requests = current_requests]
    /\ UNCHANGED <<limiterVars, results>>
    /\ ConcFrame

\* line 66: 'reset_time': min(...) if request_history else current_time
TL66(t) ==
    /\ th[t].pc = "L66"
    /\ th' = [th EXCEPT ![t].pc = "L67",
                        ![t].reset_time =
                            DeniedInfo(lists[th[t].key][th[t].ref], th[t].limit, th[t].window,
                                       th[t].current_requests, th[t].current_time).reset_time]
    /\ UNCHANGED <<limiterVars, results>>
    /\ ConcFrame

\* lines 67-69: 'retry_after': ...; return False, info
TL67(t) ==
    /\ th[t].pc = "L67"
    /\ Return(t, [DeniedInfo(lists[th[t].key][th[t].ref], th[t].limit, th[t].window,
                             th[t].current_requests, th[t].current_time)
                    EXCEPT !.reset_time = th[t].reset_time])
    /\ SetStore(Store, th')
    /\ ConcFrame

\* lines 72-83: request_history.append((current_time, 1)); return True, info
TL72(t) ==
    /\ th[t].pc = "L72"
    /\ Return(t, AllowedInfo(th[t].limit, th[t].window, th[t].current_requests,
                             th[t].current_time))
    /\ SetStore([Store EXCEPT !.lists[th[t].key][th[t].ref] =
                    Append(@, <<th[t].current_time, 1>>)], th')
    /\ ConcFrame

\* the clock of the concurrent model
ConcTick ==
    /\ \E t \in ConcInstants : t > now /\ now' = t
    /\ UNCHANGED <<limiterVars, last, ncalls, historyVars, threadVars, httpVars, auxVars>>

NextConc ==
    \/ ConcTick
    \/ \E t \in Threads, key \in Keys, limit \in ConcLimits, window \in ConcWindows :
           TEnter(t, key, limit, window)
    \/ \E t \in Threads : TL40(t)
    \/ \E t \in Threads : TL42(t)
    \/ \E t \in Threads, k \in AllKeys : TL88(t, k)
    \/ \E t \in Threads : TL94(t)
    \/ \E t \in Threads : TL95(t)
    \/ \E t \in Threads : TL45(t)
    \/ \E t \in Threads : TL46(t)
    \/ \E t \in Threads : TL48(t)
    \/ \E t \in Threads : TL51(t)
    \/ \E t \in Threads : TL51w(t)
    \/ \E t \in Threads : TL57(t)
    \/ \E t \in Threads : TL66(t)
    \/ \E t \in Threads : TL67(t)
    \/ \E t \in Threads : TL72(t)

SpecConc == Init /\ [][NextConc]_vars

(***************************************************************************)
(* Request model: the Flask application serving one request at a time.     *)
(* before_request functions run in registration order (request logging,    *)
(* performance tracking, rate limiting), then the view, then the           *)
(* after_request functions in reverse registration order.                  *)
(***************************************************************************)

\* the characters of the strings the middleware looks into
Chars ==
       "" :> <<>>
    @@ "health" :> <<"h", "e", "a", "l", "t", "h">>
    @@ "home" :> <<"h", "o", "m", "e">>
    @@ "static" :> <<"s", "t", "a", "t", "i", "c">>
    @@ "auth.get_user" :> <<"a", "u", "t", "h", ".", "g", "e", "t", "_", "u", "s", "e", "r">>
    @@ "curl/8.4" :> <<"c", "u", "r", "l", "/", "8", ".", "4">>
    @@ "UptimeRobot/2.0" :> <<"U", "p", "t", "i", "m", "e", "R", "o", "b", "o", "t", "/", "2", ".", "0">>
    @@ "uptimerobot/2.0" :> <<"u", "p", "t", "i", "m", "e", "r", "o", "b", "o", "t", "/", "2", ".", "0">>
    @@ "monitor" :> <<"m", "o", "n", "i", "t", "o", "r">>
    @@ "health-check" :> <<"h", "e", "a", "l", "t", "h", "-", "c", "h", "e", "c", "k">>
    @@ "uptime" :> <<"u", "p", "t", "i", "m", "e">>
    @@ "1.2.3.4" :> <<"1", ".", "2", ".", "3", ".", "4">>
    @@ "5.6.7.8" :> <<"5", ".", "6", ".", "7", ".", "8">>
    @@ "5.6.7.8, 1.2.3.4" :> <<"5", ".", "6", ".", "7", ".", "8", ",", " ", "1", ".", "2", ".", "3", ".", "4">>
    @@ " 1.2.3.4" :> <<" ", "1", ".", "2", ".", "3", ".", "4">>
    @@ "Bearer " :> <<"B", "e", "a", "r", "e", "r", " ">>
    @@ "Bearer mock-token-1" :> <<"B", "e", "a", "r", "e", "r", " ", "m", "o", "c", "k", "-", "t", "o", "k", "e", "n", "-", "1">>
    @@ "mock-token-1" :> <<"m", "o", "c", "k", "-", "t", "o", "k", "e", "n", "-", "1">>
    @@ "mock-token" :> <<"m", "o", "c", "k", "-", "t", "o", "k", "e", "n">>
    @@ "Bearer admin-jwt" :> <<"B", "e", "a", "r", "e", "r", " ", "a", "d", "m", "i", "n", "-", "j", "w", "t">>
    @@ "admin-jwt" :> <<"a", "d", "m", "i", "n", "-", "j", "w", "t">>
    @@ "Bearer garbage" :> <<"B", "e", "a", "r", "e", "r", " ", "g", "a", "r", "b", "a", "g", "e">>
    @@ "garbage" :> <<"g", "a", "r", "b", "a", "g", "e">>
    @@ "Basic abc" :> <<"B", "a", "s", "i", "c", " ", "a", "b", "c">>

\* the string made of the given characters
Str(cs) == CHOOSE s \in DOMAIN Chars : Chars[s] = cs

\* str.lower(), letter by letter
LowerOf ==
       "A" :> "a" @@ "B" :> "b" @@ "C" :> "c" @@ "D" :> "d" @@ "E" :> "e" @@ "F" :> "f"
    @@ "G" :> "g" @@ "H" :> "h" @@ "I" :> "i" @@ "J" :> "j" @@ "K" :> "k" @@ "L" :> "l"
    @@ "M" :> "m" @@ "N" :> "n" @@ "O" :> "o" @@ "P" :> "p" @@ "Q" :> "q" @@ "R" :> "r"
    @@ "S" :> "s" @@ "T" :> "t" @@ "U" :> "u" @@ "V" :> "v" @@ "W" :> "w" @@ "X" :> "x"
    @@ "Y" :> "y" @@ "Z" :> "z"

LowerChar(c) == IF c \in DOMAIN LowerOf THEN LowerOf[c] ELSE c

Lower(cs) == [i \in 1..Len(cs) |-> LowerChar(cs[i])]

\* sub in s
Contains(cs, sub) ==
    \E i \in 0..(Len(cs) - Len(sub)) : SubSeq(cs, i + 1, i + Len(sub)) = sub

\* s.startswith(prefix)
StartsWith(cs, prefix) ==
    Len(cs) >= Len(prefix) /\ SubSeq(cs, 1, Len(prefix)) = prefix

\* s.split(',')[0]
FirstField(cs) ==
    LET commas == {i \in 1..Len(cs) : cs[i] = ","}
    IN  IF commas = {} THEN cs
        ELSE SubSeq(cs, 1, (CHOOSE i \in commas : \A j \in commas : i <= j) - 1)

\* s.strip()
Strip(cs) ==
    LET solid == {i \in 1..Len(cs) : cs[i] # " "}
    IN  IF solid = {} THEN <<>>
        ELSE SubSeq(cs, CHOOSE i \in solid : \A j \in solid : i <= j,
                        CHOOSE i \in solid : \A j \in solid : i >= j)

\* setattr(obj, name, v)  /  mapping[name] = v
SetAttr(f, name, v) == [n \in DOMAIN f \cup {name} |-> IF n = name THEN v ELSE f[n]]

\* g.current_user as left by optional_auth for an anonymous caller (None)
NoUser == [id |-> "", roles |-> {}]

\* hasattr(g, 'current_user') and g.current_user
HasUser(ctx) == "current_user" \in DOMAIN ctx /\ ctx.current_user # NoUser

\* mutant: the User-Agent is matched as sent, without lower()
ShouldSkipCaseSensitive(request) ==
    \/ request.endpoint \in {"health", "home"}
    \/ request.endpoint # "" /\ StartsWith(Chars[request.endpoint], Chars["static"])
    \/ \E bot \in {"monitor", "health-check", "uptime"} :
           Contains(Chars[request.user_agent], Chars[bot])

\* should_skip_rate_limiting()
ShouldSkipRateLimiting(request) ==
    \/ request.endpoint \in {"health", "home"}
    \/ request.endpoint # "" /\ StartsWith(Chars[request.endpoint], Chars["static"])
    \/ \E bot \in {"monitor", "health-check", "uptime"} :
           Contains(Lower(Chars[request.user_agent]), Chars[bot])

default_limits == [limit |-> 100, window |-> 3600]

\* f'method_{method.lower()}'
MethodKey(method) == IF method = "GET" THEN "method_get" ELSE "method_post"

\* app_limits.get(name, default)
GetOr(limits, name, default) == IF name \in DOMAIN limits THEN limits[name] ELSE default

\* mutant: the method entry is looked up before the endpoint entry
GetRateLimitConfigMethodFirst(limits, request, ctx) ==
    IF MethodKey(request.method) \in DOMAIN limits
    THEN limits[MethodKey(request.method)]
    ELSE IF request.endpoint # "" /\ request.endpoint \in DOMAIN limits
    THEN limits[request.endpoint]
    ELSE IF HasUser(ctx)
    THEN IF "admin" \in ctx.current_user.roles /\ "admin" \in DOMAIN limits
         THEN limits["admin"]
         ELSE IF "premium" \in ctx.current_user.roles /\ "premium" \in DOMAIN limits
         THEN limits["premium"]
         ELSE GetOr(limits, "authenticated", default_limits)
    ELSE GetOr(limits, "unauthenticated", default_limits)

\* get_rate_limit_config()
GetRateLimitConfig(limits, request, ctx) ==
    IF request.endpoint # "" /\ request.endpoint \in DOMAIN limits
    THEN limits[request.endpoint]
    ELSE IF MethodKey(request.method) \in DOMAIN limits
    THEN limits[MethodKey(request.method)]
    ELSE IF HasUser(ctx)
    THEN IF "admin" \in ctx.current_user.roles /\ "admin" \in DOMAIN limits
         THEN limits["admin"]
         ELSE IF "premium" \in ctx.current_user.roles /\ "premium" \in DOMAIN limits
         THEN limits["premium"]
         ELSE GetOr(limits, "authenticated", default_limits)
    ELSE GetOr(limits, "unauthenticated", default_limits)

\* generate_rate_limit_key()
GenerateRateLimitKey(request, ctx) ==
    IF HasUser(ctx)
    THEN "user:" \o ctx.current_user.id
    ELSE IF request.forwarded_for # ""
    THEN "ip:" \o Str(Strip(FirstField(Chars[request.forwarded_for])))
    ELSE "ip:" \o request.remote_addr

\* a response has been produced
Returned(response) == response.status # 0

\* what a view function returns when it succeeds
OkResponse == [status |-> 200, body |-> [status |-> "ok"], headers |-> <<>>]

\* str(e) of the exception a handler runs into
ExceptionText == "could not connect to server db-internal:5432"

\* handle_exception(e): the JSON 500 response of the global error handler
HandleException ==
    [status |-> 500,
     body |-> [error |-> "An unexpected error occurred",
               message |-> IF app_config.DEBUG THEN ExceptionText ELSE "Internal server error",
               status_code |-> 500],
     headers |-> <<>>]

\* a route's own except branch: jsonify({'error': ..., 'message': str(e)}), 500
RouteErrorResponse ==
    [status |-> 500,
     body |-> [error |-> "Failed to create purchase order", message |-> ExceptionText],
     headers |-> <<>>]

\* the 401 responses of auth_required
Unauthorized(error, code) ==
    [status |-> 401, body |-> [error |-> error, code |-> code], headers |-> <<>>]

\* the 429 response built by check_rate_limit
GlobalDenial(info) ==
    [status |-> 429,
     body |-> [error |-> "Rate limit exceeded",
               message |-> "Too many requests. Limit: " \o ToString(info.limit)
                           \o " per " \o ToString(info.window) \o " seconds",
               limit |-> info.limit, window |-> info.window,
               current |-> info.current, retry_after |-> info.retry_after],
     headers |-> ("X-RateLimit-Limit" :> ToString(info.limit))
              @@ ("X-RateLimit-Remaining" :> "0")
              @@ ("X-RateLimit-Reset" :> ToString(info.reset_time))
              @@ ("Retry-After" :> ToString(info.retry_after))]

\* the 429 response built by the rate_limit decorator
RouteDenial(limit, window, info) ==
    [status |-> 429,
     body |-> [error |-> "Rate limit exceeded",
               message |-> "Too many requests to this endpoint. Limit: " \o ToString(limit)
                           \o " per " \o ToString(window) \o " seconds",
               limit |-> limit, window |-> window,
               current |-> info.current, retry_after |-> info.retry_after],
     headers |-> ("X-RateLimit-Limit" :> ToString(limit))
              @@ ("X-RateLimit-Remaining" :> "0")
              @@ ("X-RateLimit-Reset" :> ToString(info.reset_time))
              @@ ("Retry-After" :> ToString(info.retry_after))]

\* check_rate_limit falls through: the hook returns None
CheckPassed(st, ctx, derived) ==
    [st |-> st, g |-> ctx, resp |-> NoResponse, raised |-> FALSE,
     key_derived |-> derived, denied |-> FALSE]

\* mutant: a failure inside the check is answered with the 500 response
CheckFailedBlocks(st, ctx, derived) ==
    [st |-> st, g |-> ctx, resp |-> HandleException, raised |-> TRUE,
     key_derived |-> derived, denied |-> FALSE]

\* check_rate_limit's except branch: log the error, pass (the hook returns None)
CheckFailed(st, ctx, derived) ==
    [st |-> st, g |-> ctx, resp |-> NoResponse, raised |-> TRUE,
     key_derived |-> derived, denied |-> FALSE]

\* the steps of check_rate_limit at which an exception may be raised
CheckFaults == {"none", "skip", "config", "key", "limiter", "respond"}

\* check_rate_limit(), with an exception raised at the step named by fault
\* (if that step is reached)
CheckRateLimitBody(st, limits, request, ctx, current_time, fault) ==
    LET limit_config   == GetRateLimitConfig(limits, request, ctx)
        rate_limit_key == GenerateRateLimitKey(request, ctx)
        r    == IsAllowed(st, rate_limit_key, limit_config.limit, limit_config.window,
                          current_time)
        ctx2 == SetAttr(ctx, "rate_limit_info", r.info)
    IN  IF fault = "skip" THEN CheckFailed(st, ctx, FALSE)
        ELSE IF ShouldSkipRateLimiting(request) THEN CheckPassed(st, ctx, FALSE)
        ELSE IF fault = "config" THEN CheckFailed(st, ctx, FALSE)
        ELSE IF DOMAIN limit_config = {} THEN CheckPassed(st, ctx, FALSE)
        ELSE IF fault = "key" THEN CheckFailed(st, ctx, FALSE)
        ELSE IF fault = "limiter" THEN CheckFailed(st, ctx, TRUE)
        ELSE IF r.info.allowed THEN CheckPassed(r.st, ctx2, TRUE)
        ELSE IF fault = "respond" THEN CheckFailed(r.st, ctx2, TRUE)
        ELSE [st |-> r.st, g |-> ctx2, resp |-> GlobalDenial(r.info), raised |-> FALSE,
              key_derived |-> TRUE, denied |-> TRUE]

\* f(*args, **kwargs): the wrapped view function returns or raises
HandlerOutcomes == {"ok", "raise"}

\* the same, and the handler catching its exception in its own except branch
RouteOutcomes == HandlerOutcomes \cup {"caught"}

\* the steps of the rate_limit decorator at which an exception may be raised
RouteFaults == {"none", "key", "limiter", "respond"}

\* one invocation of the view function by the decorator, ending the view
Invoke(st, ctx, outcome, runs, faulted) ==
    [st |-> st, g |-> ctx,
     resp |-> IF outcome = "ok" THEN OkResponse
              ELSE IF outcome = "caught" THEN RouteErrorResponse ELSE NoResponse,
     escaped |-> outcome = "raise", runs |-> runs, denied |-> FALSE, raised |-> faulted]

\* the decorator's except branch: log the error, return f(*args, **kwargs)
RouteFailed(st, ctx, outcome, runs) == Invoke(st, ctx, outcome, runs, TRUE)

\* rate_limit(limit, window)(f)(), with an exception raised at the step named
\* by fault (if reached); first and second are the outcomes of f's first and
\* second invocation. An exception raised by f inside the try block is caught
\* by the same except branch, which invokes f again.
DecoratedFunction(st, request, ctx, current_time, fault, first, second) ==
    LET limit == request.wrap.limit
        window == request.wrap.window
        rate_limit_key == GenerateRateLimitKey(request, ctx)
        r    == IsAllowed(st, rate_limit_key, limit, window, current_time)
        ctx2 == SetAttr(ctx, "rate_limit_info", r.info)
    IN  IF fault \in {"key", "limiter"} THEN RouteFailed(st, ctx, first, 1)
        ELSE IF ~r.info.allowed
        THEN IF fault = "respond" THEN RouteFailed(r.st, ctx, first, 1)
             ELSE [st |-> r.st, g |-> ctx, resp |-> RouteDenial(limit, window, r.info),
                   escaped |-> FALSE, runs |-> 0, denied |-> TRUE, raised |-> FALSE]
        ELSE IF first = "ok" THEN Invoke(r.st, ctx2, first, 1, FALSE)
        ELSE [RouteFailed(r.st, ctx2, second, 2) EXCEPT !.raised = FALSE]

\* the route's function under its rate_limit decorator, if it has one
RouteFunction(st, request, ctx, current_time, fault, first, second) ==
    IF request.wrap.on
    THEN DecoratedFunction(st, request, ctx, current_time, fault, first, second)
    ELSE Invoke(st, ctx, first, 1, FALSE)

\* jwt.decode(token, options={"verify_signature": False}): the claims of the
\* tokens of the model that decode
JwtClaims == "admin-jwt" :> [sub |-> "admin-1", roles |-> {"admin"}]

\* auth_service.validate_token(token)
ValidateToken(token) ==
    IF token = "" THEN [valid |-> FALSE, user |-> NoUser, error |-> "Token is required"]
    ELSE IF StartsWith(Chars[token], Chars["mock-token"])
    THEN [valid |-> TRUE, user |-> [id |-> "mock-user-123", roles |-> {"user"}], error |-> ""]
    ELSE IF token \in DOMAIN JwtClaims
    THEN [valid |-> TRUE, error |-> "",
          user |-> [id |-> JwtClaims[token].sub, roles |-> JwtClaims[token].roles]]
    ELSE [valid |-> FALSE, user |-> NoUser, error |-> "Invalid token format"]

\* auth_header.replace('Bearer ', '') of a header that starts with 'Bearer '
BearerToken(auth_header) ==
    Str(SubSeq(Chars[auth_header], Len(Chars["Bearer "]) + 1, Len(Chars[auth_header])))

\* a decorator answers by itself: the function it wraps is not called
Answer(st, ctx, response) ==
    [st |-> st, g |-> ctx, resp |-> response, escaped |-> FALSE, runs |-> 0,
     denied |-> FALSE, raised |-> FALSE]

\* auth_required(f)(): an exception raised by f inside the try block is caught
\* by the except branch, which answers 401
AuthRequired(st, request, ctx, current_time, fault, first, second) ==
    LET auth_header == request.authorization
        validation_result == ValidateToken(BearerToken(auth_header))
        ctx2 == SetAttr(ctx, "current_user", validation_result.user)
        out  == RouteFunction(st, request, ctx2, current_time, fault, first, second)
    IN  IF auth_header = ""
        THEN Answer(st, ctx, Unauthorized("Authorization header is required", "MISSING_AUTH_HEADER"))
        ELSE IF ~StartsWith(Chars[auth_header], Chars["Bearer "])
        THEN Answer(st, ctx, Unauthorized("Invalid authorization header format", "INVALID_AUTH_FORMAT"))
        ELSE IF ~validation_result.valid
        THEN Answer(st, ctx, Unauthorized(validation_result.error, "INVALID_TOKEN"))
        ELSE IF out.escaped
        THEN [out EXCEPT !.escaped = FALSE,
                         !.resp = Unauthorized("Authentication failed", "AUTH_ERROR")]
        ELSE out

\* optional_auth(f)(): g.current_user is None unless the token validates; an
\* exception raised by f inside the try block is caught by the except branch,
\* which resets g.current_user and calls f again
OptionalAuth(st, request, ctx, current_time, first, second) ==
    LET auth_header == request.authorization
        anonymous == SetAttr(ctx, "current_user", NoUser)
        validation_result == ValidateToken(BearerToken(auth_header))
        ctx2 == IF auth_header # "" /\ StartsWith(Chars[auth_header], Chars["Bearer "])
                   /\ validation_result.valid
                THEN SetAttr(ctx, "current_user", validation_result.user)
                ELSE anonymous
    IN  IF first = "raise"
        THEN Invoke(st, anonymous, second, 2, FALSE)
        ELSE Invoke(st, ctx2, first, 1, FALSE)

\* the view function Flask dispatches to: the route's function under the
\* decorators of the route
ViewFunction(st, request, ctx, current_time, fault, first, second) ==
    IF request.auth = "auth_required"
    THEN AuthRequired(st, request, ctx, current_time, fault, first, second)
    ELSE IF request.auth = "optional_auth"
    THEN OptionalAuth(st, request, ctx, current_time, first, second)
    ELSE RouteFunction(st, request, ctx, current_time, fault, first, second)

\* after_request hook add_rate_limit_headers(response)
AddHeaders(ctx, response) ==
    IF "rate_limit_info" \in DOMAIN ctx
    THEN LET info == ctx.rate_limit_info
             h1 == SetAttr(response.headers, "X-RateLimit-Limit", ToString(info.limit))
             h2 == SetAttr(h1, "X-RateLimit-Remaining",
                           ToString(IF "remaining" \in DOMAIN info THEN info.remaining ELSE 0))
             h3 == SetAttr(h2, "X-RateLimit-Reset", ToString(info.reset_time))
         IN  [response EXCEPT !.headers = h3]
    ELSE response

\* mutant: the response goes out without X-Request-ID
LogHeadersNoId(ctx, response, current_time) ==
    LET response_time == IF "start_time" \in DOMAIN ctx
                         THEN (current_time - ctx.start_time) * 1000 ELSE 0
    IN  IF response_time # 0
        THEN [response EXCEPT !.headers = SetAttr(response.headers, "X-Response-Time",
                                                   ToString(response_time) \o ".00ms")]
        ELSE response

\* after_request hook of the request logger: X-Request-ID and, when the
\* elapsed time is not zero, X-Response-Time
LogHeaders(ctx, response, current_time) ==
    LET response_time == IF "start_time" \in DOMAIN ctx
                         THEN (current_time - ctx.start_time) * 1000 ELSE 0
        request_id == IF "request_id" \in DOMAIN ctx THEN ctx.request_id ELSE "unknown"
        h1 == SetAttr(response.headers, "X-Request-ID", request_id)
        h2 == IF response_time # 0
              THEN SetAttr(h1, "X-Response-Time", ToString(response_time) \o ".00ms")
              ELSE h1
    IN  [response EXCEPT !.headers = h2]

\* the log level after_request chooses from the status code
LogLevel(status_code) ==
    IF status_code >= 400
    THEN (IF status_code >= 500 THEN "ERROR" ELSE "WARNING")
    ELSE "INFO"

\* the entry after_request logs: the conditional expression spans the whole
\* message, which is empty when the elapsed time is zero
RequestEndEntry(ctx, response, current_time) ==
    LET response_time == IF "start_time" \in DOMAIN ctx
                         THEN (current_time - ctx.start_time) * 1000 ELSE 0
        request_id == IF "request_id" \in DOMAIN ctx THEN ctx.request_id ELSE "unknown"
    IN  [logger |-> "logging_middleware", level |-> LogLevel(response.status),
         request_id |-> IF response_time # 0 THEN request_id ELSE "",
         fault |-> ""]

\* the entry handle_exception(e) hands to the application logger: the text of
\* the exception, no request identifier
UnhandledEntry == [logger |-> "app", level |-> "ERROR", request_id |-> "", fault |-> ExceptionText]

\* the entry teardown_request(exception) logs when it is given an exception
RequestErrorEntry(ctx) ==
    [logger |-> "logging_middleware", level |-> "ERROR",
     request_id |-> IF "request_id" \in DOMAIN ctx THEN ctx.request_id ELSE "unknown",
     fault |-> ExceptionText]

\* @app.errorhandler(Exception): every exception of a view has a handler
ErrorHandlerRegistered == TRUE

\* the argument of teardown_request: the exception that no error handler
\* turned into a response, if there is one
TeardownArgument(escaped) == escaped /\ ~ErrorHandlerRegistered

\* str(uuid.uuid4())[:8]: a fresh identifier for each request
GenerateRequestId(n) == "req-" \o ToString(n)

\* inputs of the request model
Endpoints == {"health", "static", "auth.get_user"}
Methods == {"GET", "POST"}
UserAgents == {"curl/8.4", "UptimeRobot/2.0"}
Addrs == {"1.2.3.4", "5.6.7.8"}
Forwarded == {"", "5.6.7.8, 1.2.3.4"}
Unwrapped == [on |-> FALSE, limit |-> 0, window |-> 0]
Wraps == {Unwrapped, [on |-> TRUE, limit |-> 1, window |-> 60]}
AppLimits == {NotConfigured, "unauthenticated" :> [limit |-> 1, window |-> 60]}
RequestsIn ==
    {r \in [endpoint : Endpoints, method : Methods, user_agent : UserAgents,
            remote_addr : Addrs, forwarded_for : Forwarded, wrap : Wraps,
            authorization : {""}, auth : {"none"}] :
        r.wrap.on => r.endpoint = "auth.get_user"}

\* the configuration classes of app/config.py, as far as the model reads them
ConfigClasses ==
    [development |-> ("DEBUG" :> TRUE @@ "TESTING" :> FALSE),
     production  |-> ("DEBUG" :> FALSE @@ "TESTING" :> FALSE),
     testing     |-> ("DEBUG" :> TRUE @@ "TESTING" :> TRUE @@ "RATELIMIT_ENABLED" :> FALSE)]

HttpFrame == UNCHANGED <<last, ncalls, historyVars, threadVars, auxVars>>

\* create_app(): the configuration is loaded
CreateApp(config_name, limits) ==
    /\ hpc = "boot"
    /\ app_config' = ConfigClasses[config_name]
    /\ app_limits' = limits
    /\ hpc' = "idle"
    /\ UNCHANGED <<now, limiterVars, req, g, resp, nreq, note>>
    /\ HttpFrame

\* the clock moves on
HttpTick ==
    /\ hpc # "boot"
    /\ \E t \in HttpInstants : t > now /\ now' = t
    /\ UNCHANGED <<limiterVars, httpVars>>
    /\ HttpFrame

\* a request arrives: a new request context
Arrive(request) ==
    /\ hpc \in {"idle", "sent"}
    /\ nreq < MaxRequests
    /\ req' = request
    /\ g' = NoAttrs
    /\ resp' = NoResponse
    /\ nreq' = nreq + 1
    /\ note' = [NoNote EXCEPT !.arrival = Store]
    /\ hpc' = "before_request"
    /\ UNCHANGED <<now, limiterVars, app_limits, app_config>>
    /\ HttpFrame

\* before_request() of the request logger
BeforeRequest ==
    /\ hpc = "before_request"
    /\ g' = SetAttr(SetAttr(g, "start_time", now), "request_id", GenerateRequestId(nreq))
    /\ note' = [note EXCEPT !.request_id = g'.request_id]
    /\ hpc' = "setup_performance_tracking"
    /\ UNCHANGED <<now, limiterVars, app_limits, app_config, req, resp, nreq>>
    /\ HttpFrame

\* setup_performance_tracking()
SetupPerformanceTracking ==
    /\ hpc = "setup_performance_tracking"
    /\ g' = SetAttr(SetAttr(g, "perf_start", now), "perf_counters",
                    [db_queries |-> 0, api_calls |-> 0, cache_hits |-> 0, cache_misses |-> 0])
    /\ hpc' = "check_rate_limit"
    /\ UNCHANGED <<now, limiterVars, app_limits, app_config, req, resp, nreq, note>>
    /\ HttpFrame

\* mutant: the view is dispatched whatever the hook returned
CheckReturnsRunsView(out) ==
    /\ requests' = out.st.requests
    /\ lists' = out.st.lists
    /\ last_cleanup' = out.st.last_cleanup
    /\ g' = out.g
    /\ resp' = out.resp
    /\ hpc' = "view"
    /\ note' = [note EXCEPT !.raised_in_check = out.raised,
                            !.key_derived = out.key_derived,
                            !.check_key = IF out.key_derived
                                          THEN GenerateRateLimitKey(req, g) ELSE "",
                            !.denied_by = IF out.denied THEN "global" ELSE @,
                            !.deny_limit = IF out.denied THEN out.g.rate_limit_info.limit ELSE @]

\* the hook is over: what it did to the limiter and to g, and what it returned;
\* a response returned by a before_request function ends request dispatching
\* (the view is not called)
CheckReturns(out) ==
    /\ requests' = out.st.requests
    /\ lists' = out.st.lists
    /\ last_cleanup' = out.st.last_cleanup
    /\ g' = out.g
    /\ resp' = out.resp
    /\ hpc' = IF Returned(out.resp) THEN "add_rate_limit_headers" ELSE "view"
    /\ note' = [note EXCEPT !.raised_in_check = out.raised,
                            !.key_derived = out.key_derived,
                            !.check_key = IF out.key_derived
                                          THEN GenerateRateLimitKey(req, g) ELSE "",
                            !.denied_by = IF out.denied THEN "global" ELSE @,
                            !.deny_limit = IF out.denied THEN out.g.rate_limit_info.limit ELSE @]

\* check_rate_limit()
CheckRateLimit(fault) ==
    /\ hpc = "check_rate_limit"
    /\ CheckReturns(CheckRateLimitBody(Store, app_limits, req, g, now, fault))
    /\ UNCHANGED <<now, app_limits, app_config, req, nreq>>
    /\ HttpFrame

\* the view is over: what it did, and the response it returned; an exception
\* that escapes it is turned into a response by handle_exception
ViewReturns(out) ==
    /\ requests' = out.st.requests
    /\ lists' = out.st.lists
    /\ last_cleanup' = out.st.last_cleanup
    /\ g' = out.g
    /\ resp' = IF out.escaped THEN HandleException ELSE out.resp
    /\ note' = [note EXCEPT !.raised_in_decorator = out.raised,
                            !.handler_runs = out.runs,
                            !.handler_raised = out.escaped,
                            !.log = IF out.escaped THEN Append(@, UnhandledEntry) ELSE @,
                            !.logged_before_response =
                                IF out.escaped THEN Len(note.log) + 1 ELSE Len(note.log),
                            !.denied_by = IF out.denied THEN "decorator" ELSE @,
                            !.deny_limit = IF out.denied THEN req.wrap.limit ELSE @]

\* dispatch_request(): the view function runs
RunView(fault, first, second) ==
    /\ hpc = "view"
    /\ ViewReturns(ViewFunction(Store, req, g, now, fault, first, second))
    /\ hpc' = "add_rate_limit_headers"
    /\ UNCHANGED <<now, app_limits, app_config, req, nreq>>
    /\ HttpFrame

\* add_rate_limit_headers(response)
AddRateLimitHeaders ==
    /\ hpc = "add_rate_limit_headers"
    /\ resp' = AddHeaders(g, resp)
    /\ hpc' = "log_performance_metrics"
    /\ UNCHANGED <<now, limiterVars, app_limits, app_config, req, g, nreq, note>>
    /\ HttpFrame

\* log_performance_metrics(response): logs, returns the response as it is
LogPerformanceMetrics ==
    /\ hpc = "log_performance_metrics"
    /\ hpc' = "after_request"
    /\ UNCHANGED <<now, limiterVars, app_limits, app_config, req, g, resp, nreq, note>>
    /\ HttpFrame

\* after_request(response) of the request logger
AfterRequest ==
    /\ hpc = "after_request"
    /\ resp' = LogHeaders(g, resp, now)
    /\ note' = [note EXCEPT !.log = Append(@, RequestEndEntry(g, resp, now))]
    /\ hpc' = "teardown_request"
    /\ UNCHANGED <<now, limiterVars, app_limits, app_config, req, g, nreq>>
    /\ HttpFrame

\* teardown_request(exception); the response goes out
TeardownRequest ==
    /\ hpc = "teardown_request"
    /\ note' = IF TeardownArgument(note.handler_raised)
               THEN [note EXCEPT !.log = Append(@, RequestErrorEntry(g))]
               ELSE note
    /\ hpc' = "sent"
    /\ UNCHANGED <<now, limiterVars, app_limits, app_config, req, g, resp, nreq>>
    /\ HttpFrame

NextHttp ==
    \/ \E limits \in AppLimits : CreateApp("production", limits)
    \/ HttpTick
    \/ \E request \in RequestsIn : Arrive(request)
    \/ BeforeRequest
    \/ SetupPerformanceTracking
    \/ \E fault \in CheckFaults : CheckRateLimit(fault)
    \/ \E fault \in RouteFaults, first \in HandlerOutcomes, second \in HandlerOutcomes :
           RunView(fault, first, second)
    \/ AddRateLimitHeaders
    \/ LogPerformanceMetrics
    \/ AfterRequest
    \/ TeardownRequest

SpecHttp == Init /\ [][NextHttp]_vars

\* the request model with authenticated and anonymous callers of an API
\* route, under each configuration class, with and without role limits
AppConfigs == {"development", "production", "testing"}
RoleLimits == ("admin" :> [limit |-> 3, window |-> 60])
           @@ ("unauthenticated" :> [limit |-> 1, window |-> 60])
AppLimitsIn == {NotConfigured, RoleLimits}
Credentials == {"", "Bearer mock-token-1", "Bearer admin-jwt"}
AppRequestsIn ==
    {r \in [endpoint : {"auth.get_user"}, method : {"GET"}, user_agent : {"curl/8.4"},
            remote_addr : {"1.2.3.4"}, forwarded_for : Forwarded, wrap : Wraps,
            authorization : Credentials,
            auth : {"none", "auth_required", "optional_auth"}] :
        r.auth = "optional_auth" => ~r.wrap.on}

NextApp ==
    \/ \E config_name \in AppConfigs, limits \in AppLimitsIn : CreateApp(config_name, limits)
    \/ HttpTick
    \/ \E request \in AppRequestsIn : Arrive(request)
    \/ BeforeRequest
    \/ SetupPerformanceTracking
    \/ CheckRateLimit("none")
    \/ \E first \in RouteOutcomes, second \in RouteOutcomes : RunView("none", first, second)
    \/ AddRateLimitHeaders
    \/ LogPerformanceMetrics
    \/ AfterRequest
    \/ TeardownRequest

SpecApp == Init /\ [][NextApp]_vars

\* requests to one route under @rate_limit(limit=3, window=60), no RATE_LIMITS
\* configured: the global check and the decorator both run
RouteRequestsIn ==
    [endpoint : {"auth.get_user"}, method : Methods, user_agent : {"curl/8.4"},
     remote_addr : Addrs, forwarded_for : {""},
     wrap : {[on |-> TRUE, limit |-> 3, window |-> 60]},
     authorization : {""}, auth : {"none"}]

NextRoute ==
    \/ CreateApp("production", NotConfigured)
    \/ HttpTick
    \/ \E request \in RouteRequestsIn : Arrive(request)
    \/ BeforeRequest
    \/ SetupPerformanceTracking
    \/ CheckRateLimit("none")
    \/ \E first, second \in HandlerOutcomes : RunView("none", first, second)
    \/ AddRateLimitHeaders
    \/ LogPerformanceMetrics
    \/ AfterRequest
    \/ TeardownRequest

SpecRoute == Init /\ [][NextRoute]_vars

(***************************************************************************)
(* Configuration model: get_rate_limit_config() applied to a configuration, *)
(* a request and a request context                                          *)
(***************************************************************************)
\* the entries RATE_LIMITS may hold, each with a limit of its own
EntryOf ==
       "auth.get_user"   :> [limit |-> 10, window |-> 60]
    @@ "method_get"      :> [limit |-> 20, window |-> 60]
    @@ "admin"           :> [limit |-> 30, window |-> 60]
    @@ "premium"         :> [limit |-> 40, window |-> 60]
    @@ "authenticated"   :> [limit |-> 50, window |-> 60]
    @@ "unauthenticated" :> [limit |-> 60, window |-> 60]
LimitsIn == {[n \in names |-> EntryOf[n]] : names \in SUBSET DOMAIN EntryOf}
\* g without current_user, with current_user None, and with a principal
ContextsIn ==
    {NoAttrs, SetAttr(NoAttrs, "current_user", NoUser)}
    \cup {SetAttr(NoAttrs, "current_user", [id |-> "u1", roles |-> roles]) :
             roles \in {{"user"}, {"admin"}, {"premium"}, {"admin", "premium"}}}

\* get_rate_limit_config() for a request to endpoint with method, under limits and ctx
Resolve(limits, endpoint, method, ctx) ==
    /\ resolved' = [limits |-> limits, endpoint |-> endpoint, method |-> method, ctx |-> ctx,
                    limit_config |-> GetRateLimitConfig(limits,
                                        [NoRequest EXCEPT !.endpoint = endpoint, !.method = method],
                                        ctx)]
    /\ UNCHANGED <<now, limiterVars, last, ncalls, historyVars, threadVars, httpVars, sweeps,
                   ctxVars, evictVars, orderVars>>

NextConfig ==
    \E limits \in LimitsIn, endpoint \in {"auth.get_user", "auth.logout"},
       method \in Methods, ctx \in ContextsIn : Resolve(limits, endpoint, method, ctx)

SpecConfig == Init /\ [][NextConfig]_vars

(***************************************************************************)
(* Context model: workers serving requests at the same time.  flask.g is a *)
(* proxy to the application context of the request the calling worker is  *)
(* serving; the hooks and the track_* functions reach the context only     *)
(* through it.                                                             *)
(***************************************************************************)
\* one context for every worker's request, whoever asks
ContextShared(w) == IF w \in Workers THEN "w1" ELSE w

\* the context flask.g stands for in worker w
ContextOf(w) == w

\* counters[name] += 1
Bump(counters, name) == [counters EXCEPT ![name] = @ + 1]

\* g.<name> += amount, after "if not hasattr(g, name): g.<name> = 0"
Accumulate(ctx, name, amount) ==
    SetAttr(ctx, name, (IF name \in DOMAIN ctx THEN ctx[name] ELSE 0) + amount)

track_db_query(ctx, query_time) ==
    IF "perf_counters" \in DOMAIN ctx
    THEN Accumulate([ctx EXCEPT !.perf_counters = Bump(@, "db_queries")],
                    "db_query_time", query_time)
    ELSE ctx

track_api_call(ctx, call_time) ==
    IF "perf_counters" \in DOMAIN ctx
    THEN Accumulate([ctx EXCEPT !.perf_counters = Bump(@, "api_calls")],
                    "api_call_time", call_time)
    ELSE ctx

track_cache_hit(ctx) ==
    IF "perf_counters" \in DOMAIN ctx
    THEN [ctx EXCEPT !.perf_counters = Bump(@, "cache_hits")]
    ELSE ctx

track_cache_miss(ctx) ==
    IF "perf_counters" \in DOMAIN ctx
    THEN [ctx EXCEPT !.perf_counters = Bump(@, "cache_misses")]
    ELSE ctx

\* the metrics log_performance_metrics reads; it logs them for slow requests only
SlowRequestMetrics(ctx, current_time) ==
    IF {"perf_start", "perf_counters"} \subseteq DOMAIN ctx
       /\ (current_time - ctx.perf_start) * 1000 > 1000
    THEN [db_queries |-> ctx.perf_counters["db_queries"],
          api_calls |-> ctx.perf_counters["api_calls"],
          cache_hits |-> ctx.perf_counters["cache_hits"],
          cache_misses |-> ctx.perf_counters["cache_misses"],
          request_id |-> IF "request_id" \in DOMAIN ctx THEN ctx.request_id ELSE "unknown"]
    ELSE <<>>

CtxFrame ==
    UNCHANGED <<limiterVars, last, ncalls, historyVars, threadVars, httpVars, resolved, sweeps,
                evictVars, orderVars>>

\* the clock of the context model
CtxTick ==
    /\ \E t \in HttpInstants : t > now /\ now' = t
    /\ UNCHANGED ctxVars
    /\ CtxFrame

\* a request reaches worker w: a new context; before_request
CtxBeforeRequest(w, n) ==
    /\ wk[w].pc = "idle"
    /\ gs' = [gs EXCEPT ![ContextOf(w)] =
                 SetAttr(SetAttr(NoAttrs, "start_time", now), "request_id", GenerateRequestId(n))]
    /\ wk' = [wk EXCEPT ![w] = [IdleWorker EXCEPT !.pc = "setup_performance_tracking",
                                                  !.request_id = GenerateRequestId(n),
                                                  !.start_time = now]]
    /\ UNCHANGED now
    /\ CtxFrame

\* setup_performance_tracking
CtxSetupPerformanceTracking(w) ==
    /\ wk[w].pc = "setup_performance_tracking"
    /\ gs' = [gs EXCEPT ![ContextOf(w)] =
                 SetAttr(SetAttr(@, "perf_start", now), "perf_counters", ZeroCounters)]
    /\ wk' = [wk EXCEPT ![w].pc = "view"]
    /\ UNCHANGED now
    /\ CtxFrame

\* track calls made so far by the request of worker w
Tracks(w) ==
    wk[w].calls["db_queries"] + wk[w].calls["api_calls"]
        + wk[w].calls["cache_hits"] + wk[w].calls["cache_misses"]

\* the view of worker w calls the track function of counter kind
Track(w, kind, duration) ==
    /\ wk[w].pc = "view"
    /\ Tracks(w) < MaxTracks
    /\ gs' = [gs EXCEPT ![ContextOf(w)] =
                 CASE kind = "db_queries" -> track_db_query(@, duration)
                   [] kind = "api_calls" -> track_api_call(@, duration)
                   [] kind = "cache_hits" -> track_cache_hit(@)
                   [] kind = "cache_misses" -> track_cache_miss(@)]
    /\ wk' = [wk EXCEPT ![w].calls[kind] = @ + 1]
    /\ UNCHANGED now
    /\ CtxFrame

\* the view returns; log_performance_metrics
CtxLogPerformanceMetrics(w) ==
    /\ wk[w].pc = "view"
    /\ wk' = [wk EXCEPT ![w].pc = "after_request",
                        ![w].seen = SlowRequestMetrics(gs[ContextOf(w)], now)]
    /\ UNCHANGED <<now, gs>>
    /\ CtxFrame

\* after_request, then the context is popped
CtxAfterRequest(w) ==
    /\ wk[w].pc = "after_request"
    /\ gs' = [gs EXCEPT ![ContextOf(w)] = NoAttrs]
    /\ wk' = [wk EXCEPT ![w] = IdleWorker]
    /\ UNCHANGED now
    /\ CtxFrame

NextCtx ==
    \/ CtxTick
    \/ \E w \in Workers, n \in 1..Cardinality(Workers) : CtxBeforeRequest(w, n)
    \/ \E w \in Workers : CtxSetupPerformanceTracking(w)
    \/ \E w \in Workers, kind \in TrackKinds, duration \in QueryTimes : Track(w, kind, duration)
    \/ \E w \in Workers : CtxLogPerformanceMetrics(w)
    \/ \E w \in Workers : CtxAfterRequest(w)

SpecCtx == Init /\ [][NextCtx]_vars

(***************************************************************************)
(* Eviction model: checks keep arriving, one at a time, while the clock    *)
(* runs over several cleanup intervals; some keys stop being checked.      *)
(***************************************************************************)
EvInstants == {0, 301, 602, 903}
EvLimits == {1, 2}
EvWindows == {60, 400}

\* the map as _cleanup_old_entries leaves it, called on the map before
SweepResult(before, cutoff_time) ==
    LET after == CleanupOldEntries(before, cutoff_time, NoRefs)
        keys  == {k \in AllKeys : after.requests[k] # Absent}
    IN  [ran |-> TRUE,
         keys |-> keys,
         empty |-> {k \in keys : HistOf(after, k) = <<>>},
         evicted |-> {k \in AllKeys : before.requests[k] # Absent} \ keys]

EvFrame ==
    UNCHANGED <<last, ncalls, historyVars, threadVars, httpVars, resolved, sweeps, ctxVars,
               orderVars>>

\* the clock of the eviction model
EvTick ==
    /\ \E t \in EvInstants : t > now /\ now' = t
    /\ UNCHANGED <<limiterVars, evictVars>>
    /\ EvFrame

\* is_allowed(key, limit, window) on a key that is still in use
EvCheck(key, limit, window) ==
    /\ key \notin retired
    /\ \E r \in {IsAllowed(Store, key, limit, window, now)} :
           /\ requests' = r.st.requests
           /\ lists' = r.st.lists
           /\ last_cleanup' = r.st.last_cleanup
    /\ swept' = IF now - last_cleanup > cleanup_interval
                THEN SweepResult(Store, now - window)
                ELSE swept
    /\ UNCHANGED <<now, retired>>
    /\ EvFrame

\* the client behind key sends no more requests
Retire(key) ==
    /\ key \notin retired
    /\ retired \cup {key} # Keys
    /\ retired' = retired \cup {key}
    /\ UNCHANGED <<now, limiterVars, swept>>
    /\ EvFrame

EvChecks == \E key \in Keys, limit \in EvLimits, window \in EvWindows : EvCheck(key, limit, window)

NextEvict ==
    \/ EvTick
    \/ EvChecks
    \/ \E key \in Keys : Retire(key)

\* the clock runs and checks keep arriving
SpecEvict == Init /\ [][NextEvict]_vars /\ WF_vars(EvTick) /\ WF_vars(EvChecks)

(***************************************************************************)
(* Claims on the serial model                                              *)
(***************************************************************************)
Called == last # NoCall
Allowed == Called /\ last.info.allowed
Denied == Called /\ ~last.info.allowed
\* the history stored for the key of the last call
LastHist == HistOf(Store, last.key)

\* C1: once `limit` checks (key, limit, window) made since the key was fresh
\* have been allowed, the next check (key, limit, window) made while they are
\* all still inside the window is denied, whatever other checks came between.
C1_NextCheckDenied == (Called /\ last.owed_denial) => ~last.info.allowed

\* the finished calls of the concurrent model, as <<thread, index>>
Finished == {<<t, i>> : t \in Threads, i \in 1..MaxConcCalls} \cap
            {c \in Threads \X (1..MaxConcCalls) : c[2] <= Len(results[c[1]])}
ResultOf(c) == results[c[1]][c[2]]
\* every call entered so far is on the same key with the same limit and window
SameSignature ==
    \A c, d \in Finished \cup {<<t, 0>> : t \in {u \in Threads : th[u].pc # "idle"}} :
        LET sig(x) == IF x[2] = 0
                      THEN <<th[x[1]].key, th[x[1]].limit, th[x[1]].window>>
                      ELSE <<ResultOf(x).key, ResultOf(x).limit, ResultOf(x).window>>
        IN  sig(c) = sig(d)
\* the calls allowed in the window that ends at the time of call c
AllowedInWindow(c) ==
    {d \in Finished : /\ ResultOf(d).info.allowed
                      /\ ResultOf(d).time <= ResultOf(c).time
                      /\ ResultOf(c).time - ResultOf(d).time < ResultOf(c).window}

\* C2: when all the concurrent calls are on one key with one limit and window,
\* the calls allowed within one window never number more than limit.
C2_NoOvershoot ==
    SameSignature =>
        \A c \in Finished :
            ResultOf(c).info.allowed => Cardinality(AllowedInWindow(c)) <= ResultOf(c).limit

\* C3: a check on one key removes no record of another key that a later check
\* on that other key could still count (one no older than the longest window),
\* so the outcome and the usage of checks on the other key are not changed.
LongestWindow == CHOOSE w \in Windows : \A v \in Windows : v <= w
Countable(h, t) == Prune(h, t, LongestWindow)
C3_KeysIndependent ==
    [][\A k \in Keys :
         (ncalls' = ncalls + 1 /\ last'.key # k)
             => Countable(HistOf(Store, k), now)
                  = Countable(HistOf([requests |-> requests', lists |-> lists',
                                      last_cleanup |-> last_cleanup'], k), now)]_vars

\* C4, with the value the code returns at t = 61: the example scenario (limit 3,
\* window 60; t = 0, 1, 2 allowed
\* with remaining 2, 1, 0; t = 5 denied with retry_after 55; t = 61 allowed
\* with remaining 1, the arrival of t = 2 being still inside the window).
C4_Scenario ==
    /\ scen \in {1, 2, 3} => (last.info.allowed /\ last.info.remaining = 3 - scen)
    /\ scen = 4 => (~last.info.allowed /\ last.info.retry_after = 55)
    /\ scen = 5 => (last.info.allowed /\ last.info.remaining = 1)
\* C4 as stated: the check at t = 61 reports remaining = 2
C4_ScenarioAsStated ==
    /\ scen \in {1, 2, 3} => (last.info.allowed /\ last.info.remaining = 3 - scen)
    /\ scen = 4 => (~last.info.allowed /\ last.info.retry_after = 55)
    /\ scen = 5 => (last.info.allowed /\ last.info.remaining = 2)
C4_Witness == scen = 5 /\ last.time = 61 /\ last.info.allowed

\* C5: a check made at least `window` seconds after the latest recorded
\* arrival of its key is allowed and reports usage 1, remaining limit - 1.
C5_FullReset ==
    (Called /\ last.prev_arrival >= 0 /\ last.time - last.prev_arrival >= last.window)
        => /\ last.info.allowed
           /\ last.info.current = 1
           /\ last.info.remaining = last.limit - 1
C5_Witness ==
    /\ Allowed
    /\ last.prev_arrival >= 0
    /\ last.time - last.prev_arrival = last.window
    /\ last.limit = 1

\* C6: on an allowed check, remaining = limit - (usage counted with this
\* request included), and remaining is not negative.
C6_Remaining ==
    Allowed => /\ last.info.current = Len(LastHist)
               /\ last.info.remaining = last.limit - Len(LastHist)
               /\ last.info.remaining >= 0
C6_Witness == Allowed /\ last.info.remaining = 0 /\ last.limit = 3 /\ last.window = 1

\* C7: a denial has retry_after >= 0 and reset_time >= the time of the check;
\* reset_time is the earliest surviving timestamp plus the window and
\* retry_after = reset_time - now.
C7_DenialTimes ==
    Denied => /\ last.info.retry_after >= 0
              /\ last.info.reset_time >= last.time
              /\ LastHist # <<>>
              /\ \E i \in 1..Len(LastHist) : last.info.reset_time = LastHist[i][1] + last.window
              /\ \A i \in 1..Len(LastHist) : last.info.reset_time <= LastHist[i][1] + last.window
              /\ last.info.retry_after = last.info.reset_time - last.time
C7_Witness ==
    /\ Denied
    /\ Len(LastHist) >= 2
    /\ LastHist[1][1] # LastHist[2][1]
    /\ last.time > LastHist[2][1]

\* C21: right after the pruning step of a check on key k with window w at time
\* now, every record of k's history has now - timestamp < w (a record exactly
\* w seconds old is gone), and the usage counted for the decision is the
\* number of those records.
C21_Pruning ==
    Called => /\ \A i \in 1..Len(last.pruned) : last.time - last.pruned[i][1] < last.window
              /\ last.counted = Len(last.pruned)
C21_Witness ==
    /\ Called
    /\ last.dropped = 1
    /\ Len(last.pruned) = 1
    /\ last.prev_arrival >= 0
    /\ last.time - last.prev_arrival < last.window
    /\ last.window = 60

\* the last call is a denial that follows a denial of the same check
DeniedAgain == Denied /\ last.prev_denial # NoDenial

Records(h) == {h[i] : i \in 1..Len(h)}

\* C27: when a key is checked under a longer and then under a shorter window,
\* the check with the shorter window (running no sweep) removes no arrival
\* record that is still inside the longer window, so that a later check with
\* the longer window counts it.
C27_ShortKeepsLong ==
    [][(/\ ncalls' = ncalls + 1 /\ last_cleanup' = last_cleanup
        /\ Called /\ last.key = last'.key
        /\ last.window = LongestWindow /\ last'.window < last.window)
          => Records(Countable(HistOf(Store, last'.key), now))
                 \subseteq Records(HistOf([requests |-> requests', lists |-> lists',
                                           last_cleanup |-> last_cleanup'], last'.key))]_vars

\* the list the check of thread t holds as request_history
HeldList(t) == lists[th[t].key][th[t].ref]

\* C22: with limit >= 1, in every interleaving of concurrent checks and sweeps
\* a check that has decided to deny (it is at line 66 or 67, about to compute
\* reset_time or retry_after) holds a non-empty history, so that the default
\* reset_time = current_time is not taken.
C22_DenialFromRecords ==
    \A t \in Threads :
        (th[t].pc \in {"L66", "L67"} /\ th[t].limit >= 1) => HeldList(t) # <<>>

\* the statements of _cleanup_old_entries
SweepPcs == {"L87", "L94", "L95"}

\* C23: in every interleaving of a cleanup sweep and a check, no statement of
\* the sweep ends the call it runs in (it never raises because a key is gone),
\* and no statement of the sweep takes out of the map the list to which a
\* check that has decided to allow is about to append its arrival, so that the
\* arrival is in the history stored for the key when both are over.
C23_SweepKeepsArrival ==
    [][\A s \in Threads :
          th[s].pc \in SweepPcs =>
              /\ th'[s].pc # "idle"
              /\ \A t \in Threads \ {s} :
                     (th[t].pc = "L72" /\ requests[th[t].key] = th[t].ref /\ th'[s] # th[s])
                         => requests'[th[t].key] = th[t].ref]_vars

(***************************************************************************)
(* Claims on the request model                                             *)
(***************************************************************************)
\* the hooks that run once the view is over (or was skipped), and the end
PostView == {"add_rate_limit_headers", "log_performance_metrics", "after_request",
             "teardown_request", "sent"}

\* C8: fail-open. If a step of the global check raises, the hook returns no
\* response and the request goes on to its view; if a step of the decorator's
\* check raises, the handler runs; the check that failed produces no denial,
\* and the response is the handler's own (200 when the handler succeeds).
C8_FailOpen ==
    /\ note.raised_in_check =>
           /\ note.denied_by # "global"
           /\ \/ hpc = "view"
              \/ hpc \in PostView /\ (note.handler_runs >= 1 \/ note.denied_by = "decorator")
    /\ (note.raised_in_decorator /\ hpc \in PostView) =>
           /\ note.handler_runs >= 1
           /\ note.denied_by = "none"
    /\ ( /\ note.raised_in_check \/ note.raised_in_decorator
         /\ hpc = "sent"
         /\ note.denied_by = "none"
         /\ ~note.handler_raised ) => resp.status = 200
C8_Witness ==
    /\ hpc = "sent"
    /\ note.raised_in_check
    /\ "rate_limit_info" \in DOMAIN g
    /\ ~g.rate_limit_info.allowed
    /\ note.handler_runs = 1
    /\ resp.status = 200

\* C9: every denial, by the global check or by the decorator, is sent as a
\* 429 whose body has the fields error, message, limit, window, current,
\* retry_after and whose headers, after all after_request hooks, carry
\* X-RateLimit-Limit = the denying check's limit, X-RateLimit-Remaining = 0,
\* X-RateLimit-Reset and Retry-After.
C9_DenialResponse ==
    (hpc = "sent" /\ note.denied_by # "none") =>
        /\ resp.status = 429
        /\ DOMAIN resp.body = {"error", "message", "limit", "window", "current", "retry_after"}
        /\ {"X-RateLimit-Limit", "X-RateLimit-Remaining", "X-RateLimit-Reset", "Retry-After"}
               \subseteq DOMAIN resp.headers
        /\ resp.headers["X-RateLimit-Limit"] = ToString(note.deny_limit)
        /\ resp.headers["X-RateLimit-Remaining"] = "0"

\* the requests of the model that are exempt: the health endpoint, the static
\* route, and the monitoring User-Agent (its name holds 'Uptime')
Exempt(request) ==
    request.endpoint \in {"health", "static"} \/ request.user_agent = "UptimeRobot/2.0"

\* C10: for an exempt request the global check returns without deriving a key,
\* without a response and with the limiter's map as it was when the request
\* arrived; the request is answered with no 429 and the map still unchanged
\* (routes as the application registers them, without the rate_limit decorator).
C10_ExemptBypass ==
    Exempt(req) =>
        /\ hpc \in {"view"} \cup PostView => ~note.key_derived /\ note.denied_by # "global"
        /\ hpc = "view" => Store = note.arrival /\ ~Returned(resp)
        /\ (hpc \in PostView /\ ~req.wrap.on) => Store = note.arrival /\ resp.status # 429
C10_Witness ==
    /\ hpc = "sent"
    /\ nreq >= 2
    /\ req.endpoint = "auth.get_user"
    /\ req.user_agent = "UptimeRobot/2.0"
    /\ ~req.wrap.on
    /\ \E k \in Keys : HistOf(Store, k) # <<>>
    /\ resp.status = 200

(***************************************************************************)
(* Claims on key derivation and limit configuration                        *)
(***************************************************************************)
\* the principal the credentials of a request resolve to
PrincipalOf == ("Bearer mock-token-1" :> "mock-user-123") @@ ("Bearer admin-jwt" :> "admin-1")

\* the first entry of the X-Forwarded-For values of the model
FirstEntry == "5.6.7.8, 1.2.3.4" :> "5.6.7.8"

\* the key C11 names for a request
NamedKey(request) ==
    IF request.authorization \in DOMAIN PrincipalOf
    THEN "user:" \o PrincipalOf[request.authorization]
    ELSE IF request.forwarded_for # ""
    THEN "ip:" \o FirstEntry[request.forwarded_for]
    ELSE "ip:" \o request.remote_addr

\* C11: the key of the limiter check applied to a request is 'user:<id>' when
\* its credentials resolve to a principal, else 'ip:<first X-Forwarded-For
\* entry>' when the header is present, else 'ip:<peer address>'.
C11_KeyDerivation ==
    (hpc \in {"view"} \cup PostView /\ note.key_derived) => note.check_key = NamedKey(req)

\* C13: the check made for a request authenticated as an admin, with an admin
\* limit configured and no endpoint or method entry, uses the admin limit and
\* window.
C13_AdminLimit ==
    ( /\ hpc = "view"
      /\ "rate_limit_info" \in DOMAIN g
      /\ req.authorization = "Bearer admin-jwt"
      /\ "admin" \in DOMAIN app_limits
      /\ req.endpoint \notin DOMAIN app_limits
      /\ MethodKey(req.method) \notin DOMAIN app_limits )
    => /\ g.rate_limit_info.limit = app_limits["admin"].limit
       /\ g.rate_limit_info.window = app_limits["admin"].window

\* the entry names C12 lists for a call, in the order it lists them
MethodEntry == ("GET" :> "method_get") @@ ("POST" :> "method_post")
Authenticated(r) == "current_user" \in DOMAIN r.ctx /\ r.ctx.current_user.id # ""
EntryOrder(r) ==
    <<r.endpoint, MethodEntry[r.method]>>
    \o (IF Authenticated(r)
        THEN (IF "admin" \in r.ctx.current_user.roles THEN <<"admin">> ELSE <<>>)
             \o (IF "premium" \in r.ctx.current_user.roles THEN <<"premium">> ELSE <<>>)
             \o <<"authenticated">>
        ELSE <<"unauthenticated">>)
FirstConfigured(r) ==
    LET hits == {i \in 1..Len(EntryOrder(r)) : EntryOrder(r)[i] \in DOMAIN r.limits}
    IN  IF hits = {} THEN [limit |-> 100, window |-> 3600]
        ELSE r.limits[EntryOrder(r)[CHOOSE i \in hits : \A j \in hits : i <= j]]

C14_RequestId ==
    hpc = "sent" =>
        /\ note.request_id # ""
        /\ "X-Request-ID" \in DOMAIN resp.headers
        /\ resp.headers["X-Request-ID"] = note.request_id
C14_Witness ==
    /\ hpc = "sent"
    /\ nreq = 2
    /\ resp.status = 429
    /\ resp.headers["X-Request-ID"] = "req-2"

\* the hooks that run before the limiter check
BeforeCheck == {"before_request", "setup_performance_tracking"}

\* the global check let the request through
CheckAllowed == note.key_derived /\ ~note.raised_in_check /\ note.denied_by # "global"

\* C18: for a non-exempt request the id and start time are assigned before the
\* limiter check runs; a request the check denies never reaches its handler
\* and is answered with the denial response; a request the check allows
\* reaches its handler (or the route's own rate_limit decorator) after the check.
C18_Lifecycle ==
    (~Exempt(req) /\ hpc \notin {"boot", "idle"}) =>
        /\ hpc = "check_rate_limit" => {"request_id", "start_time"} \subseteq DOMAIN g
        /\ hpc \in BeforeCheck \cup {"check_rate_limit"} =>
               note.handler_runs = 0 /\ ~note.key_derived
        /\ note.denied_by = "global" =>
               /\ note.handler_runs = 0
               /\ hpc \in PostView
               /\ resp.status = 429
               /\ resp.body = GlobalDenial(g.rate_limit_info).body
        /\ (CheckAllowed /\ hpc \in PostView) =>
               note.handler_runs >= 1 \/ note.denied_by = "decorator"
C18_Witness ==
    /\ hpc = "sent"
    /\ note.denied_by = "global"
    /\ note.handler_runs = 0
    /\ resp.status = 429
    /\ req.endpoint = "auth.get_user"

\* C15: a request that ends in a 500 response because of an exception gets a
\* body without the text of the exception, unless the application runs in
\* debug mode.
C15_NoLeak ==
    (hpc = "sent" /\ resp.status = 500 /\ ~app_config.DEBUG) =>
        \A field \in DOMAIN resp.body : resp.body[field] # ExceptionText

\* C17: under the testing configuration (RATELIMIT_ENABLED = False) no request
\* is counted against a quota and none is answered 429.
C17_TestingDisabled ==
    ("RATELIMIT_ENABLED" \in DOMAIN app_config /\ ~app_config.RATELIMIT_ENABLED) =>
        /\ \A k \in AllKeys : HistOf(Store, k) = <<>>
        /\ resp.status # 429

\* C19: between the starts of any two executions of _cleanup_old_entries at
\* least 300 seconds of clock time elapse, in every interleaving of concurrent
\* checks.
C19_SweepSpacing ==
    \A i, j \in 1..Len(sweeps) : i < j => sweeps[j] - sweeps[i] >= cleanup_interval

\* C16: the counters of a request are zero when it starts, change only through
\* the track_* calls of that request, each call adding one to its own counter
\* and nothing to the others; and whatever other requests do meanwhile, the
\* correlation id, the start time and the counters a request finds in its
\* context are its own.
C16_Isolation ==
    \A w \in Workers :
        /\ wk[w].pc # "idle" =>
               /\ gs[ContextOf(w)].request_id = wk[w].request_id
               /\ gs[ContextOf(w)].start_time = wk[w].start_time
        /\ wk[w].pc \in {"view", "after_request"} =>
               gs[ContextOf(w)].perf_counters = wk[w].calls
        /\ wk[w].seen # <<>> =>
               /\ \A kind \in TrackKinds : wk[w].seen[kind] = wk[w].calls[kind]
               /\ wk[w].seen.request_id = wk[w].request_id

C16_Witness ==
    /\ wk["w1"].pc = "after_request" /\ wk["w2"].pc = "view"
    /\ wk["w1"].request_id # wk["w2"].request_id
    /\ wk["w1"].seen # <<>>
    /\ wk["w1"].seen["db_queries"] = 1 /\ wk["w1"].seen["cache_misses"] = 1
    /\ gs["w2"].perf_counters["cache_hits"] = 2
    /\ gs["w2"].perf_counters["db_queries"] = 0

\* two more cleanup intervals fit on the clock of the eviction model
TimeLeft == \E t \in EvInstants : now + 2 * (cleanup_interval + 1) <= t

\* C20: a key that stops receiving checks while checks on other keys keep
\* arriving is eventually removed from the map by a sweep; and right after
\* every sweep no key of the map has an empty history.
C20_Eviction ==
    /\ \A k \in Keys : (k \in retired /\ requests[k] # Absent /\ TimeLeft) ~> (requests[k] = Absent)
    /\ [](swept.ran => swept.empty = {})

C20_Witness ==
    \E k \in retired :
        /\ swept.ran
        /\ k \in swept.evicted
        /\ requests[k] = Absent
        /\ swept.keys # {}
        /\ last_cleanup = now

(***************************************************************************)
(* The purchase-order workflow (models/purchase_order.py)                  *)
(***************************************************************************)
\* inputs of the order model
Approvers == {"alice"}
ApprovalNotes == {NoText, "within budget"}
Reasons == {"over budget"}
TrackingNumbers == {NoText, "1Z999"}
DeliveryNotes == {NoText, ""}

\* truth value of an optional text argument: None and '' are false
Given(text) == text # NoText /\ text # ""

\* date.today() at clock t
Today(t) == t \div 86400

\* PurchaseOrder.approve(approved_by, notes)
approve(order, approved_by, notes, utcnow) ==
    IF order.status \in {DRAFT, PENDING}
    THEN [order EXCEPT !.status = APPROVED,
                       !.approved_by = approved_by,
                       !.approval_date = utcnow,
                       !.approval_notes = IF Given(notes) THEN notes ELSE @,
                       !.updated_at = utcnow]
    ELSE order

\* PurchaseOrder.reject(rejected_by, reason)
reject(order, rejected_by, reason, utcnow) ==
    [order EXCEPT !.status = CANCELLED,
                  !.approval_notes = "Rejected by " \o rejected_by \o ": " \o reason,
                  !.updated_at = utcnow]

\* PurchaseOrder.mark_ordered(tracking_number)
mark_ordered(order, tracking_number, utcnow) ==
    IF order.status = APPROVED
    THEN [order EXCEPT !.status = ORDERED,
                       !.tracking_number = IF Given(tracking_number) THEN tracking_number ELSE @,
                       !.updated_at = utcnow]
    ELSE order

\* PurchaseOrder.mark_received(delivery_notes)
mark_received(order, delivery_notes, utcnow) ==
    IF order.status = ORDERED
    THEN [order EXCEPT !.status = RECEIVED,
                       !.actual_delivery_date = Today(utcnow),
                       !.delivery_notes = IF Given(delivery_notes) THEN delivery_notes ELSE @,
                       !.updated_at = utcnow]
    ELSE order

OrderFrame ==
    UNCHANGED <<limiterVars, last, ncalls, historyVars, threadVars, httpVars, resolved, sweeps,
                ctxVars, evictVars>>

\* a workflow method has returned and left the order as 'after'
OrderCalled(method, after) ==
    /\ Len(trail) < MaxOrderCalls
    /\ po' = after
    /\ trail' = Append(trail, [method |-> method, status |-> after.status])
    /\ UNCHANGED now
    /\ OrderFrame

OrderTick ==
    /\ \E t \in OrderInstants : t > now /\ now' = t
    /\ UNCHANGED orderVars
    /\ OrderFrame

Approve(approved_by, notes) == OrderCalled("approve", approve(po, approved_by, notes, now))

Reject(rejected_by, reason) == OrderCalled("reject", reject(po, rejected_by, reason, now))

MarkOrdered(tracking_number) == OrderCalled("mark_ordered", mark_ordered(po, tracking_number, now))

MarkReceived(delivery_notes) == OrderCalled("mark_received", mark_received(po, delivery_notes, now))

NextOrder ==
    \/ OrderTick
    \/ \E approved_by \in Approvers, notes \in ApprovalNotes : Approve(approved_by, notes)
    \/ \E rejected_by \in Approvers, reason \in Reasons : Reject(rejected_by, reason)
    \/ \E tracking_number \in TrackingNumbers : MarkOrdered(tracking_number)
    \/ \E delivery_notes \in DeliveryNotes : MarkReceived(delivery_notes)

SpecOrder == Init /\ [][NextOrder]_vars

\* the statuses the order has had, oldest first
StatusTrail == <<DRAFT>> \o [i \in 1..Len(trail) |-> trail[i].status]

\* C30: whatever workflow methods are called on a new order, it becomes
\* RECEIVED only from ORDERED after having been APPROVED, and a status of
\* RECEIVED or CANCELLED never changes again.
C30_Workflow ==
    [][/\ (po'.status = RECEIVED /\ po.status # RECEIVED) =>
            /\ po.status = ORDERED
            /\ \E i \in 1..Len(StatusTrail) : StatusTrail[i] = APPROVED
       /\ po.status \in {RECEIVED, CANCELLED} => po'.status = po.status]_vars

\* C24: when an exception escapes the view, an ERROR entry that carries the
\* fault and the request's correlation id is in the log by the time the 500
\* response has been produced
C24_FaultLogged ==
    (hpc \in PostView /\ note.handler_raised) =>
        \E i \in 1..note.logged_before_response :
            /\ note.log[i].level = "ERROR"
            /\ note.log[i].fault # ""
            /\ note.log[i].request_id = note.request_id

\* the records of key k in store st made at or after time t
Since(st, k, t) == {i \in 1..Len(HistOf(st, k)) : HistOf(st, k)[i][1] >= t}

\* C26: a served request adds at most one arrival record to the history of a
\* key, also when its route is wrapped by the rate_limit decorator and the
\* global before-request check is installed.
C26_OneUnit ==
    (hpc \in PostView /\ "start_time" \in DOMAIN g) =>
        \A k \in AllKeys :
            Cardinality(Since(Store, k, g.start_time))
                - Cardinality(Since(note.arrival, k, g.start_time)) <= 1

\* C28: the decorators rate_limit and optional_auth call the handler they wrap
\* once for a request they let through, also when the handler raises.
C28_HandlerOnce ==
    (hpc \in PostView /\ (req.wrap.on \/ req.auth = "optional_auth")) => note.handler_runs <= 1

\* C29: under auth_required the handler runs only with an Authorization header
\* that starts with 'Bearer ' and holds a token that validates, and a request
\* with such a header that the rate limiter lets through is not answered 401:
\* the handler's result or exception passes through.
C29_AuthPassThrough ==
    (hpc \in PostView /\ req.auth = "auth_required") =>
        LET good == /\ req.authorization # ""
                    /\ StartsWith(Chars[req.authorization], Chars["Bearer "])
                    /\ ValidateToken(BearerToken(req.authorization)).valid
        IN  /\ note.handler_runs >= 1 => good
            /\ (good /\ note.denied_by = "none") => resp.status # 401

====
